---------------------------- MODULE Spec2Model ----------------------------
(***************************************************************************)
(* Model of the Machine-MQTT bridge of src/broker.py (SerialMQTTBridge).   *)
(*                                                                         *)
(* Three threads are modelled: the main thread executing run() (setup, the *)
(* read loop, the cleanup of the finally block), the daemon request thread *)
(* executing request_qcodes_periodically(), and the network thread of the  *)
(* MQTT client, which invokes the on_mqtt_* callbacks.                     *)
(*                                                                         *)
(* Text is a sequence of Unicode code points, a chunk is a sequence of     *)
(* bytes (0..255).  Wall-clock timestamps of records are left out.         *)
(* Sleeps are counted in ticks of one second.                              *)
(***************************************************************************)
EXTENDS Integers, Sequences, FiniteSets, TLC

(***************************************************************************)
(* Bounds of the model                                                     *)
(***************************************************************************)
\* number of configured Q-codes (a prefix of the default list is used)
NumQcodes == 3
\* poll cycles the request thread may start
MaxCycles == 2
\* chunks the read loop may read
MaxReads == 2
\* request_interval (--interval), in ticks
RequestInterval == 2
\* writes that may raise an I/O error in one cycle
MaxWriteFailures == 1
\* tokens a chunk given to the decoder is made of
MaxTokens == 5
\* responses the device sends
NumResponses == 2

(***************************************************************************)
(* Program constants                                                       *)
(***************************************************************************)
STX == 2
ETB == 23
COMMA == 44
LF == 10
\* time.sleep(2) after each request
PerCodeWait == 2
\* timeout = 10 in setup_mqtt
ConnectTimeout == 10

MQTT_TOPIC_PREFIX == <<115, 101, 114, 105, 97, 108, 47, 100, 97, 116, 97>>  \* "serial/data"
SegQcode == <<47, 113, 99, 111, 100, 101, 47>>                              \* "/qcode/"
SegSpontaneous == <<47, 115, 112, 111, 110, 116, 97, 110, 101, 111, 117, 115, 47>> \* "/spontaneous/"
SegUnknown == <<47, 117, 110, 107, 110, 111, 119, 110, 47>>                 \* "/unknown/"
StrUNKNOWN == <<85, 78, 75, 78, 79, 87, 78>>                                \* "UNKNOWN"
StrRAW == <<82, 65, 87>>                                                    \* "RAW"
StrSPONT == <<83, 80, 79, 78, 84, 95>>                                      \* "SPONT_"

\* self.qcodes_to_request as set by __init__
DefaultQcodes ==
  << <<81, 49, 48, 48>>, <<81, 49, 48, 49>>, <<81, 49, 48, 50>>, <<81, 49, 48, 52>>,
     <<81, 50, 48, 48>>, <<81, 50, 48, 49>>, <<81, 51, 48, 48>>, <<81, 51, 48, 49>>,
     <<81, 51, 48, 51>>, <<81, 51, 48, 52>>, <<81, 52, 48, 50>>, <<81, 52, 48, 51>>,
     <<81, 53, 48, 48>> >>

\* the configured list: the first NumQcodes default codes (--qcodes)
qcodes_to_request == [i \in 1..NumQcodes |-> DefaultQcodes[i]]

None == [none |-> TRUE]

(***************************************************************************)
(* Text helpers (Python str / bytes operations used by the bridge)         *)
(***************************************************************************)
Min(a, b) == IF a < b THEN a ELSE b

\* s[a:b] for 0 <= a
Slice(s, a, b) == SubSeq(s, a + 1, Min(b, Len(s)))

\* s.find(c): 0-based position of the first c, or -1
Find(s, c) ==
  IF \E i \in 1..Len(s) : s[i] = c
  THEN (CHOOSE i \in 1..Len(s) : s[i] = c /\ \A j \in 1..(i - 1) : s[j] # c) - 1
  ELSE -1

\* sub in s
Contains(s, sub) ==
  \E i \in 0..(Len(s) - Len(sub)) : SubSeq(s, i + 1, i + Len(sub)) = sub

\* s.split(c, 1) where c occurs in s
SplitFirst(s, c) == << Slice(s, 0, Find(s, c)), Slice(s, Find(s, c) + 1, Len(s)) >>

RECURSIVE SplitLines(_)
\* s.split('\n')
SplitLines(s) ==
  IF Find(s, LF) = -1 THEN << s >>
  ELSE << Slice(s, 0, Find(s, LF)) >> \o SplitLines(Slice(s, Find(s, LF) + 1, Len(s)))

\* str.isspace() for one code point
IsSpace(c) ==
  \/ c \in 9..13
  \/ c \in 28..32
  \/ c \in {133, 160, 5760, 8232, 8233, 8239, 8287, 12288}
  \/ c \in 8192..8202

\* s.rstrip() in the place of s.strip()
Strip_right_only(s) ==
  IF \A i \in 1..Len(s) : IsSpace(s[i]) THEN << >>
  ELSE LET last == CHOOSE i \in 1..Len(s) : ~IsSpace(s[i]) /\ \A j \in (i + 1)..Len(s) : IsSpace(s[j])
       IN SubSeq(s, 1, last)

\* s.strip()
Strip(s) ==
  IF \A i \in 1..Len(s) : IsSpace(s[i]) THEN << >>
  ELSE LET first == CHOOSE i \in 1..Len(s) : ~IsSpace(s[i]) /\ \A j \in 1..(i - 1) : IsSpace(s[j])
           last == CHOOSE i \in 1..Len(s) : ~IsSpace(s[i]) /\ \A j \in (i + 1)..Len(s) : IsSpace(s[j])
       IN SubSeq(s, first, last)

\* str.lower() for one code point (ASCII and Latin-1 letters)
LowerChar(c) ==
  IF c \in 65..90 \/ (c \in 192..222 /\ c # 215) THEN c + 32 ELSE c

\* s.lower()
Lower(s) == [i \in 1..Len(s) |-> LowerChar(s[i])]

IsCont(b) == b \in 128..191

\* length of the UTF-8 sequence that starts at b[1], 0 when it is malformed
Utf8SeqLen(b) ==
  IF b[1] < 128 THEN 1
  ELSE IF b[1] \in 194..223 /\ Len(b) >= 2 /\ IsCont(b[2]) THEN 2
  ELSE IF b[1] \in 224..239 /\ Len(b) >= 3 /\ IsCont(b[2]) /\ IsCont(b[3])
          /\ (b[1] = 224 => b[2] >= 160) /\ (b[1] = 237 => b[2] <= 159) THEN 3
  ELSE IF b[1] \in 240..244 /\ Len(b) >= 4 /\ IsCont(b[2]) /\ IsCont(b[3]) /\ IsCont(b[4])
          /\ (b[1] = 240 => b[2] >= 144) /\ (b[1] = 244 => b[2] <= 143) THEN 4
  ELSE 0

\* code point of the well-formed sequence of length n at b[1]
Utf8CodePoint(b, n) ==
  CASE n = 1 -> b[1]
    [] n = 2 -> (b[1] - 192) * 64 + (b[2] - 128)
    [] n = 3 -> (b[1] - 224) * 4096 + (b[2] - 128) * 64 + (b[3] - 128)
    [] n = 4 -> (b[1] - 240) * 262144 + (b[2] - 128) * 4096 + (b[3] - 128) * 64 + (b[4] - 128)

RECURSIVE Utf8Decode(_)
\* data.decode('utf-8'): [ok, text]; ok is FALSE when UnicodeDecodeError is raised
Utf8Decode(b) ==
  IF b = << >> THEN [ok |-> TRUE, text |-> << >>]
  ELSE LET n == Utf8SeqLen(b) IN
       IF n = 0 THEN [ok |-> FALSE, text |-> << >>]
       ELSE LET rest == Utf8Decode(SubSeq(b, n + 1, Len(b))) IN
            IF ~rest.ok THEN rest
            ELSE [ok |-> TRUE, text |-> << Utf8CodePoint(b, n) >> \o rest.text]

\* request.encode('utf-8') for text of code points below 2048
Utf8Encode(s) ==
  LET enc(c) == IF c < 128 THEN << c >> ELSE << 192 + (c \div 64), 128 + (c % 64) >>
      F[i \in 0..Len(s)] == IF i = 0 THEN << >> ELSE F[i - 1] \o enc(s[i])
  IN F[Len(s)]


(***************************************************************************)
(* parse_rs232_response                                                    *)
(***************************************************************************)
Record(qcode, value, raw_data, message_type) ==
  [qcode |-> qcode, value |-> value, raw_data |-> raw_data, message_type |-> message_type]

\* ParseCoded splitting at the last comma instead of the first
ParseCoded_splits_at_last_comma(data_str) ==
  IF Len(data_str) >= 1 /\ data_str[1] = STX /\ Find(data_str, ETB) > 0
  THEN LET csv_response == Slice(data_str, 1, Find(data_str, ETB)) IN
       IF Find(csv_response, COMMA) # -1
       THEN LET last == CHOOSE i \in 1..Len(csv_response) :
                          /\ csv_response[i] = COMMA
                          /\ \A j \in (i + 1)..Len(csv_response) : csv_response[j] # COMMA
            IN Record(SubSeq(csv_response, 1, last - 1),
                      SubSeq(csv_response, last + 1, Len(csv_response)),
                      data_str, "qcode_response")
       ELSE Record(StrUNKNOWN, csv_response, data_str, "qcode_response")
  ELSE None

\* ParseCoded falling through when there is no comma between the markers
ParseCoded_needs_comma(data_str) ==
  IF Len(data_str) >= 1 /\ data_str[1] = STX /\ Find(data_str, ETB) > 0
  THEN LET csv_response == Slice(data_str, 1, Find(data_str, ETB)) IN
       IF Find(csv_response, COMMA) # -1
       THEN Record(SplitFirst(csv_response, COMMA)[1], SplitFirst(csv_response, COMMA)[2],
                   data_str, "qcode_response")
       ELSE None
  ELSE None

\* the branch "if data_str.startswith(chr(0x02))": a record, or None to fall through
ParseCoded(data_str) ==
  IF Len(data_str) >= 1 /\ data_str[1] = STX /\ Find(data_str, ETB) > 0
  THEN LET csv_response == Slice(data_str, 1, Find(data_str, ETB)) IN
       IF Find(csv_response, COMMA) # -1
       THEN Record(SplitFirst(csv_response, COMMA)[1], SplitFirst(csv_response, COMMA)[2],
                   data_str, "qcode_response")
       ELSE Record(StrUNKNOWN, csv_response, data_str, "qcode_response")
  ELSE None

\* the test of one line in the loop over data_str.split('\n')
SpontLineMatches(line) ==
  /\ Contains(line, StrSPONT)
  /\ Find(line, ETB) > 0
  /\ Find(Slice(line, 1, Find(line, ETB)), COMMA) # -1

\* ParseSpontaneous giving code UNKNOWN, as the coded branch does, when the line has no comma
ParseSpontaneous_unknown_without_comma(data_str) ==
  LET lines == SplitLines(data_str)
      hit(line) == Contains(line, StrSPONT) /\ Find(line, ETB) > 0
  IN
  IF Contains(data_str, StrSPONT) /\ \E i \in 1..Len(lines) : hit(lines[i])
  THEN LET k == CHOOSE i \in 1..Len(lines) : hit(lines[i]) /\ \A j \in 1..(i - 1) : ~hit(lines[j])
           csv_part == Slice(lines[k], 1, Find(lines[k], ETB))
       IN IF Find(csv_part, COMMA) # -1
          THEN Record(SplitFirst(csv_part, COMMA)[1], SplitFirst(csv_part, COMMA)[2],
                      data_str, "spontaneous")
          ELSE Record(StrUNKNOWN, csv_part, data_str, "spontaneous")
  ELSE None

\* the branch "if 'SPONT_' in data_str": a record, or None to fall through
ParseSpontaneous(data_str) ==
  LET lines == SplitLines(data_str) IN
  IF Contains(data_str, StrSPONT) /\ \E i \in 1..Len(lines) : SpontLineMatches(lines[i])
  THEN LET k == CHOOSE i \in 1..Len(lines) :
                   SpontLineMatches(lines[i]) /\ \A j \in 1..(i - 1) : ~SpontLineMatches(lines[j])
           csv_part == Slice(lines[k], 1, Find(lines[k], ETB))
       IN Record(SplitFirst(csv_part, COMMA)[1], SplitFirst(csv_part, COMMA)[2],
                 data_str, "spontaneous")
  ELSE None

\* parse_rs232_response trying the SPONT_ branch before the STX branch
parse_rs232_response_spontaneous_first(data) ==
  LET d == Utf8Decode(data) IN
  IF ~d.ok THEN None
  ELSE IF ParseSpontaneous(d.text) # None THEN ParseSpontaneous(d.text)
  ELSE IF ParseCoded(d.text) # None THEN ParseCoded(d.text)
  ELSE Record(StrRAW, Strip(d.text), d.text, "unknown")

\* parse_rs232_response(data): a record, or None
parse_rs232_response(data) ==
  LET d == Utf8Decode(data) IN
  IF ~d.ok THEN None
  ELSE IF ParseCoded(d.text) # None THEN ParseCoded(d.text)
  ELSE IF ParseSpontaneous(d.text) # None THEN ParseSpontaneous(d.text)
  ELSE Record(StrRAW, Strip(d.text), d.text, "unknown")

\* Topic with the code as it stands, not lowercased
Topic_keeps_case(parsed_data) ==
  IF parsed_data.message_type = "qcode_response"
  THEN MQTT_TOPIC_PREFIX \o SegQcode \o parsed_data.qcode
  ELSE IF parsed_data.message_type = "spontaneous"
  THEN MQTT_TOPIC_PREFIX \o SegSpontaneous \o parsed_data.qcode
  ELSE MQTT_TOPIC_PREFIX \o SegUnknown \o parsed_data.qcode

\* the topic publish_to_mqtt derives from a record
Topic(parsed_data) ==
  IF parsed_data.message_type = "qcode_response"
  THEN MQTT_TOPIC_PREFIX \o SegQcode \o Lower(parsed_data.qcode)
  ELSE IF parsed_data.message_type = "spontaneous"
  THEN MQTT_TOPIC_PREFIX \o SegSpontaneous \o Lower(parsed_data.qcode)
  ELSE MQTT_TOPIC_PREFIX \o SegUnknown \o Lower(parsed_data.qcode)

\* the message publish_to_mqtt hands to the client (json.dumps of the record fields)
Message(parsed_data) == [topic |-> Topic(parsed_data), payload |-> parsed_data]

(***************************************************************************)
(* State                                                                   *)
(***************************************************************************)
VARIABLES
  main_pc,        \* position of the main thread in main() / run()
  serial_port,    \* self.serial_port: "None", "open" or "closed"
  mqtt_client,    \* self.mqtt_client: "None", "created", "loop_started", "disconnected"
  connected,      \* self.connected
  timeout,        \* the local timeout of setup_mqtt
  running,        \* self.running
  setup_result,   \* "pending", "serial_failed", "mqtt_failed", "ok"
  stop_cause,     \* why run() entered its finally block: "none", "interrupt", "read_error", "decode_error"
  exit_code,      \* completion code of the process, -1 while it runs
  data,           \* the chunk returned by readline() and not yet processed
  reads,          \* number of readline() calls that returned
  published,      \* messages accepted by mqtt_client.publish, in order
  last_publish,   \* how publish_to_mqtt ended for the last chunk processed, "none" if not called
  dropped_offline,\* some record was dropped by publish_to_mqtt because self.connected was False
  rx_buffer,      \* bytes received by the serial port and not yet read
  device_sent,    \* indexes (in qcodes_to_request) of the responses the machine has sent
  poll_pc,        \* position of the request thread in request_qcodes_periodically()
  qidx,           \* number of list entries the for loop has taken in this cycle
  remaining,      \* ticks left of the request thread's current sleep
  cycle,          \* number of cycles started
  cycleLog,       \* send_qcode_request calls of this cycle: [qcode, sent]
  wire,           \* byte strings written to the serial port in this cycle
  since_stop,     \* ticks slept since self.running was cleared during a sleep
  stop_in_wait,   \* self.running was cleared while the request thread was in a sleep
  serial_readers, \* threads that read from the serial port (in_waiting, readline)
  serial_writers  \* threads that called write on the serial port

vars == << main_pc, serial_port, mqtt_client, connected, timeout, running, setup_result,
           stop_cause, exit_code, data, reads, published, last_publish, dropped_offline,
           rx_buffer, device_sent, poll_pc, qidx,
           remaining, cycle, cycleLog, wire, since_stop, stop_in_wait, serial_readers,
           serial_writers >>

\* variables only the request thread changes
pollVars == << qidx, remaining, cycle, cycleLog, wire, since_stop, serial_writers >>
\* variables of the read loop
readVars == << data, reads, published, last_publish, dropped_offline, serial_readers,
               rx_buffer, device_sent >>
\* variables of the MQTT client
busVars == << mqtt_client, connected >>

\* chunks readline() may return
ChunkCoded == <<2, 81, 49, 48, 48, 44, 67, 78, 67, 23, 13, 10>>  \* "\x02Q100,CNC\x17\r\n"
ChunkInvalid == <<255, 10>>                                      \* b"\xff\n"
Chunks == { ChunkCoded, ChunkInvalid, << >> }

\* SerialMQTTBridge.__init__ and the start of main()
Init ==
  /\ main_pc = "start"
  /\ serial_port = "None"
  /\ mqtt_client = "None"
  /\ connected = FALSE
  /\ timeout = 0
  /\ running = FALSE
  /\ setup_result = "pending"
  /\ stop_cause = "none"
  /\ exit_code = -1
  /\ data = << >>
  /\ reads = 0
  /\ published = << >>
  /\ last_publish = "none"
  /\ dropped_offline = FALSE
  /\ rx_buffer = << >>
  /\ device_sent = << >>
  /\ poll_pc = "notstarted"
  /\ qidx = 0
  /\ remaining = 0
  /\ cycle = 0
  /\ cycleLog = << >>
  /\ wire = << >>
  /\ since_stop = 0
  /\ stop_in_wait = FALSE
  /\ serial_readers = {}
  /\ serial_writers = {}

(***************************************************************************)
(* Main thread: run()                                                      *)
(*                                                                         *)
(* The operator's interrupt is modelled where run() handles it, inside the *)
(* try block of the read loop.  "while self.running" of the read loop is   *)
(* always true when tested: only the finally block clears the flag.        *)
(***************************************************************************)
\* setup_serial() and "if not self.setup_serial(): return"
run_setup_serial ==
  /\ main_pc = "start"
  /\ \/ /\ serial_port' = "open"
        /\ main_pc' = "setup_mqtt"
        /\ UNCHANGED setup_result
     \/ /\ setup_result' = "serial_failed"
        /\ main_pc' = "returned"
        /\ UNCHANGED serial_port
  /\ UNCHANGED << busVars, timeout, running, stop_cause, exit_code, readVars, poll_pc,
                  pollVars, stop_in_wait >>

\* setup_mqtt() up to loop_start(): connect() raises, or the network loop is started
setup_mqtt_connect ==
  /\ main_pc = "setup_mqtt"
  /\ \/ /\ mqtt_client' = "created"
        /\ main_pc' = "mqtt_failed"
        /\ UNCHANGED timeout
     \/ /\ mqtt_client' = "loop_started"
        /\ timeout' = ConnectTimeout
        /\ main_pc' = "mqtt_wait"
  /\ UNCHANGED << serial_port, connected, running, setup_result, stop_cause,
                  exit_code, readVars, poll_pc, pollVars, stop_in_wait >>

\* "while not self.connected and timeout > 0: time.sleep(1); timeout -= 1"
setup_mqtt_wait ==
  /\ main_pc = "mqtt_wait"
  /\ IF ~connected /\ timeout > 0
     THEN timeout' = timeout - 1 /\ UNCHANGED main_pc
     ELSE main_pc' = "mqtt_result" /\ UNCHANGED timeout
  /\ UNCHANGED << serial_port, busVars, running, setup_result, stop_cause, exit_code,
                  readVars, poll_pc, pollVars, stop_in_wait >>

\* "if self.connected: return True else: return False" as seen by run();
\* the local timeout ends with the call
setup_mqtt_result ==
  /\ main_pc = "mqtt_result"
  /\ IF connected
     THEN main_pc' = "set_running" /\ setup_result' = "ok"
     ELSE main_pc' = "mqtt_failed" /\ UNCHANGED setup_result
  /\ timeout' = 0
  /\ UNCHANGED << serial_port, busVars, running, stop_cause, exit_code, readVars, poll_pc,
                  pollVars, stop_in_wait >>

\* run_setup_mqtt_failed without its return statement
run_setup_mqtt_failed_no_return ==
  /\ main_pc = "mqtt_failed"
  /\ serial_port' = "closed"
  /\ setup_result' = "mqtt_failed"
  /\ main_pc' = "set_running"
  /\ UNCHANGED << busVars, timeout, running, stop_cause, exit_code, readVars, poll_pc,
                  pollVars, stop_in_wait >>

\* "if not self.setup_mqtt(): self.serial_port.close(); return"
run_setup_mqtt_failed ==
  /\ main_pc = "mqtt_failed"
  /\ serial_port' = "closed"
  /\ setup_result' = "mqtt_failed"
  /\ main_pc' = "returned"
  /\ UNCHANGED << busVars, timeout, running, stop_cause, exit_code, readVars, poll_pc,
                  pollVars, stop_in_wait >>

\* "self.running = True" and the start of the request thread
run_start ==
  /\ main_pc = "set_running"
  /\ running' = TRUE
  /\ poll_pc' = "while"
  /\ main_pc' = "loop"
  /\ UNCHANGED << serial_port, busVars, timeout, setup_result, stop_cause, exit_code, readVars,
                  pollVars, stop_in_wait >>

\* "while self.running: if self.serial_port.in_waiting > 0" (and the sleep of an idle pass)
run_in_waiting ==
  /\ main_pc = "loop"
  /\ running
  /\ \/ /\ reads < MaxReads
        /\ main_pc' = "readline"
        /\ serial_readers' = serial_readers \cup {"main"}
        /\ UNCHANGED stop_cause
     \/ /\ main_pc' = "loop"
        /\ serial_readers' = serial_readers \cup {"main"}
        /\ UNCHANGED stop_cause
     \/ /\ stop_cause' = "read_error"
        /\ main_pc' = "finally"
        /\ UNCHANGED serial_readers
  /\ UNCHANGED << serial_port, busVars, timeout, running, setup_result, exit_code, data,
                  reads, published, last_publish, dropped_offline, rx_buffer, device_sent,
                  poll_pc, pollVars, stop_in_wait >>

\* "data = self.serial_port.readline()"
run_readline ==
  /\ main_pc = "readline"
  /\ \/ /\ \E chunk \in Chunks : data' = chunk
        /\ reads' = reads + 1
        /\ main_pc' = "process"
        /\ UNCHANGED stop_cause
     \/ /\ stop_cause' = "read_error"
        /\ main_pc' = "finally"
        /\ UNCHANGED << data, reads >>
  /\ serial_readers' = serial_readers \cup {"main"}
  /\ UNCHANGED << serial_port, busVars, timeout, running, setup_result, exit_code,
                  published, last_publish, dropped_offline, rx_buffer, device_sent,
                  poll_pc, pollVars, stop_in_wait >>

\* results of mqtt_client.publish: MQTT_ERR_SUCCESS, another rc, an exception
PublishOutcomes == {"success", "rc_error", "raise"}

\* publish_to_mqtt with the result code of mqtt_client.publish not inspected
publish_to_mqtt_ignores_rc(parsed_data, outcome) ==
  IF ~connected \/ parsed_data = None THEN published
  ELSE Append(published, Message(parsed_data))

\* publish_to_mqtt without the test of self.connected
publish_to_mqtt_no_connected_check(parsed_data, outcome) ==
  IF parsed_data = None THEN published
  ELSE IF outcome = "success" THEN Append(published, Message(parsed_data))
  ELSE published

\* publish_to_mqtt(parsed_data): the messages accepted so far, after this call
publish_to_mqtt(parsed_data, outcome) ==
  IF ~connected \/ parsed_data = None THEN published
  ELSE IF outcome = "success" THEN Append(published, Message(parsed_data))
  ELSE published

\* how publish_to_mqtt(parsed_data) ends: "not_attempted" when it returns before calling
\* mqtt_client.publish, else the outcome of that call
publish_result(parsed_data, outcome) ==
  IF ~connected \/ parsed_data = None THEN "not_attempted" ELSE outcome

\* run_process without the test "if data:" of line 303
run_process_without_empty_test ==
  /\ main_pc = "process"
  /\ data' = << >>
  /\ IF ~Utf8Decode(data).ok
     THEN /\ stop_cause' = "decode_error"
          /\ main_pc' = "finally"
          /\ last_publish' = "none"
          /\ UNCHANGED << published, dropped_offline >>
     ELSE /\ \E outcome \in PublishOutcomes :
               /\ published' = publish_to_mqtt(parse_rs232_response(data), outcome)
               /\ last_publish' = publish_result(parse_rs232_response(data), outcome)
          /\ dropped_offline' = (dropped_offline \/ last_publish' = "not_attempted")
          /\ main_pc' = "loop"
          /\ UNCHANGED stop_cause
  /\ UNCHANGED << serial_port, busVars, timeout, running, setup_result, exit_code,
                  reads, serial_readers, rx_buffer, device_sent, poll_pc, pollVars,
                  stop_in_wait >>


\* "if data:" with the print of data.decode('utf-8'), the parse and the publish
run_process ==
  /\ main_pc = "process"
  /\ data' = << >>
  /\ IF data = << >>
     THEN /\ main_pc' = "loop"
          /\ last_publish' = "none"
          /\ UNCHANGED << stop_cause, published, dropped_offline >>
     ELSE IF ~Utf8Decode(data).ok
     THEN /\ stop_cause' = "decode_error"
          /\ main_pc' = "finally"
          /\ last_publish' = "none"
          /\ UNCHANGED << published, dropped_offline >>
     ELSE /\ \E outcome \in PublishOutcomes :
               /\ published' = publish_to_mqtt(parse_rs232_response(data), outcome)
               /\ last_publish' = publish_result(parse_rs232_response(data), outcome)
          /\ dropped_offline' = (dropped_offline \/ last_publish' = "not_attempted")
          /\ main_pc' = "loop"
          /\ UNCHANGED stop_cause
  /\ UNCHANGED << serial_port, busVars, timeout, running, setup_result, exit_code,
                  reads, serial_readers, rx_buffer, device_sent, poll_pc, pollVars,
                  stop_in_wait >>

\* KeyboardInterrupt raised inside the try block
run_interrupt ==
  /\ main_pc \in {"loop", "readline", "process"}
  /\ stop_cause' = "interrupt"
  /\ main_pc' = "finally"
  /\ UNCHANGED << serial_port, busVars, timeout, running, setup_result, exit_code,
                  readVars, poll_pc, pollVars, stop_in_wait >>

\* finally: "self.running = False"
run_finally ==
  /\ main_pc = "finally"
  /\ running' = FALSE
  /\ stop_in_wait' = (poll_pc \in {"wait", "idle"})
  /\ main_pc' = "close_serial"
  /\ UNCHANGED << serial_port, busVars, timeout, setup_result, stop_cause, exit_code,
                  readVars, poll_pc, pollVars >>

\* finally: "if self.serial_port and self.serial_port.is_open: self.serial_port.close()"
run_close_serial ==
  /\ main_pc = "close_serial"
  /\ serial_port' = IF serial_port = "open" THEN "closed" ELSE serial_port
  /\ main_pc' = "close_mqtt"
  /\ UNCHANGED << busVars, timeout, running, setup_result, stop_cause, exit_code,
                  readVars, poll_pc, pollVars, stop_in_wait >>

\* finally: "if self.mqtt_client: loop_stop(); disconnect()"
run_close_mqtt ==
  /\ main_pc = "close_mqtt"
  /\ mqtt_client' = IF mqtt_client # "None" THEN "disconnected" ELSE mqtt_client
  /\ main_pc' = "returned"
  /\ UNCHANGED << serial_port, connected, timeout, running, setup_result,
                  stop_cause, exit_code, readVars, poll_pc, pollVars, stop_in_wait >>

\* run() returns to main(), main() returns: the process ends and its daemon thread with it
main_exit ==
  /\ main_pc = "returned"
  /\ exit_code' = 0
  /\ main_pc' = "stopped"
  /\ poll_pc' = IF poll_pc \in {"notstarted", "done"} THEN poll_pc ELSE "killed"
  /\ UNCHANGED << serial_port, busVars, timeout, running, setup_result, stop_cause,
                  readVars, pollVars, stop_in_wait >>

(***************************************************************************)
(* Network thread of the MQTT client                                       *)
(***************************************************************************)
\* the client's loop thread is alive: after loop_start(), before loop_stop() / process end
LoopAlive == mqtt_client = "loop_started" /\ main_pc # "stopped"

\* on_mqtt_connect(client, userdata, flags, rc)
on_mqtt_connect ==
  /\ LoopAlive
  /\ \E rc \in {0, 5} : connected' = (rc = 0)
  /\ UNCHANGED << main_pc, serial_port, mqtt_client, timeout, running, setup_result,
                  stop_cause, exit_code, readVars, poll_pc, pollVars, stop_in_wait >>

\* on_mqtt_disconnect(client, userdata, rc)
on_mqtt_disconnect ==
  /\ LoopAlive
  /\ connected
  /\ connected' = FALSE
  /\ UNCHANGED << main_pc, serial_port, mqtt_client, timeout, running, setup_result,
                  stop_cause, exit_code, readVars, poll_pc, pollVars, stop_in_wait >>

(***************************************************************************)
(* Request thread: request_qcodes_periodically()                           *)
(*                                                                         *)
(* send_qcode_request catches every Exception itself and the sleeps do not *)
(* raise, so the "except Exception" handler of the while loop (with its    *)
(* time.sleep(5)) is entered by no step of the loop body and has no action.*)
(* The thread is a daemon: it ends with the process (main_exit).           *)
(***************************************************************************)
mainVars == << main_pc, serial_port, busVars, timeout, running, setup_result, stop_cause,
               exit_code, readVars, stop_in_wait >>

\* the request send_qcode_request writes for a code: f"{qcode}\n".encode('utf-8')
Request(qcode) == Utf8Encode(qcode \o << LF >>)

\* since_stop after one more tick of sleep
Slept == IF stop_in_wait THEN since_stop + 1 ELSE since_stop

\* number of failed sends in a cycle log
Failed(log) == Cardinality({i \in 1..Len(log) : ~log[i].sent})

\* poll_while as "while True:", the flag not read
poll_while_ignores_running ==
  /\ poll_pc = "while"
  /\ cycle < MaxCycles
  /\ cycle' = cycle + 1
  /\ qidx' = 0
  /\ cycleLog' = << >>
  /\ wire' = << >>
  /\ poll_pc' = "for"
  /\ UNCHANGED << mainVars, remaining, since_stop, serial_writers >>

\* "while self.running:" and the start of the for loop
poll_while ==
  /\ poll_pc = "while"
  /\ IF running
     THEN /\ cycle < MaxCycles
          /\ cycle' = cycle + 1
          /\ qidx' = 0
          /\ cycleLog' = << >>
          /\ wire' = << >>
          /\ poll_pc' = "for"
     ELSE /\ poll_pc' = "done"
          /\ UNCHANGED << cycle, qidx, cycleLog, wire >>
  /\ UNCHANGED << mainVars, remaining, since_stop, serial_writers >>

\* poll_for with the first entry of the list skipped
poll_for_skips_first ==
  /\ poll_pc = "for"
  /\ IF qidx = Len(qcodes_to_request)
     THEN poll_pc' = "cycle_if" /\ UNCHANGED qidx
     ELSE /\ qidx' = IF qidx = 0 /\ Len(qcodes_to_request) > 1 THEN 2 ELSE qidx + 1
          /\ poll_pc' = IF running THEN "send" ELSE "cycle_if"
  /\ UNCHANGED << mainVars, remaining, cycle, cycleLog, wire, since_stop, serial_writers >>

\* "for qcode in self.qcodes_to_request: if not self.running: break"
poll_for ==
  /\ poll_pc = "for"
  /\ IF qidx = Len(qcodes_to_request)
     THEN poll_pc' = "cycle_if" /\ UNCHANGED qidx
     ELSE /\ qidx' = qidx + 1
          /\ poll_pc' = IF running THEN "send" ELSE "cycle_if"
  /\ UNCHANGED << mainVars, remaining, cycle, cycleLog, wire, since_stop, serial_writers >>

\* send_qcode_request: "if self.serial_port and self.serial_port.is_open:"
send_qcode_request_check ==
  /\ poll_pc = "send"
  /\ IF serial_port = "open"
     THEN /\ poll_pc' = "write"
          /\ UNCHANGED << cycleLog, remaining >>
     ELSE /\ cycleLog' = Append(cycleLog, [qcode |-> qcodes_to_request[qidx], sent |-> FALSE])
          /\ remaining' = PerCodeWait
          /\ poll_pc' = "wait"
  /\ UNCHANGED << mainVars, qidx, cycle, wire, since_stop, serial_writers >>

\* send_qcode_request_write with a failed write propagating to the handler of the
\* while loop, so that the cycle starts over
send_qcode_request_write_propagates ==
  /\ poll_pc = "write"
  /\ serial_writers' = serial_writers \cup {"request_thread"}
  /\ \/ /\ serial_port = "open"
        /\ wire' = Append(wire, Request(qcodes_to_request[qidx]))
        /\ cycleLog' = Append(cycleLog, [qcode |-> qcodes_to_request[qidx], sent |-> TRUE])
        /\ remaining' = PerCodeWait
        /\ poll_pc' = "wait"
     \/ /\ serial_port = "open" => Failed(cycleLog) < MaxWriteFailures
        /\ cycleLog' = Append(cycleLog, [qcode |-> qcodes_to_request[qidx], sent |-> FALSE])
        /\ poll_pc' = "while"
        /\ UNCHANGED << wire, remaining >>
  /\ UNCHANGED << mainVars, qidx, cycle, since_stop >>

\* send_qcode_request_write with the reply read back by the request thread
send_qcode_request_write_reads_reply ==
  /\ poll_pc = "write"
  /\ serial_writers' = serial_writers \cup {"request_thread"}
  /\ serial_readers' = serial_readers \cup {"request_thread"}
  /\ \/ /\ serial_port = "open"
        /\ wire' = Append(wire, Request(qcodes_to_request[qidx]))
        /\ cycleLog' = Append(cycleLog, [qcode |-> qcodes_to_request[qidx], sent |-> TRUE])
     \/ /\ serial_port = "open" => Failed(cycleLog) < MaxWriteFailures
        /\ cycleLog' = Append(cycleLog, [qcode |-> qcodes_to_request[qidx], sent |-> FALSE])
        /\ UNCHANGED wire
  /\ remaining' = PerCodeWait
  /\ poll_pc' = "wait"
  /\ UNCHANGED << main_pc, serial_port, busVars, timeout, running, setup_result, stop_cause,
                  exit_code, data, reads, published, last_publish, dropped_offline, rx_buffer,
                  device_sent, stop_in_wait, qidx, cycle, since_stop >>

\* send_qcode_request: "self.serial_port.write(request.encode('utf-8'))", which returns
\* or raises (an I/O error, or the port was closed since the check); then time.sleep(2) starts
send_qcode_request_write ==
  /\ poll_pc = "write"
  /\ serial_writers' = serial_writers \cup {"request_thread"}
  /\ \/ /\ serial_port = "open"
        /\ wire' = Append(wire, Request(qcodes_to_request[qidx]))
        /\ cycleLog' = Append(cycleLog, [qcode |-> qcodes_to_request[qidx], sent |-> TRUE])
     \/ /\ serial_port = "open" => Failed(cycleLog) < MaxWriteFailures
        /\ cycleLog' = Append(cycleLog, [qcode |-> qcodes_to_request[qidx], sent |-> FALSE])
        /\ UNCHANGED wire
  /\ remaining' = PerCodeWait
  /\ poll_pc' = "wait"
  /\ UNCHANGED << mainVars, qidx, cycle, since_stop >>

\* one tick of "time.sleep(2)"; the sleep returns when no tick is left
poll_wait ==
  /\ poll_pc = "wait"
  /\ remaining' = remaining - 1
  /\ since_stop' = Slept
  /\ poll_pc' = IF remaining = 1 THEN "for" ELSE "wait"
  /\ UNCHANGED << mainVars, qidx, cycle, cycleLog, wire, serial_writers >>

\* "if self.running:" after the for loop, and the start of time.sleep(self.request_interval)
poll_cycle_if ==
  /\ poll_pc = "cycle_if"
  /\ IF running
     THEN remaining' = RequestInterval /\ poll_pc' = "idle"
     ELSE poll_pc' = "while" /\ UNCHANGED remaining
  /\ UNCHANGED << mainVars, qidx, cycle, cycleLog, wire, since_stop, serial_writers >>

\* one tick of "time.sleep(self.request_interval)"
poll_idle ==
  /\ poll_pc = "idle"
  /\ remaining' = remaining - 1
  /\ since_stop' = Slept
  /\ poll_pc' = IF remaining = 1 THEN "while" ELSE "idle"
  /\ UNCHANGED << mainVars, qidx, cycle, cycleLog, wire, serial_writers >>

Next ==
  \/ run_setup_serial
  \/ setup_mqtt_connect
  \/ setup_mqtt_wait
  \/ setup_mqtt_result
  \/ run_setup_mqtt_failed
  \/ run_start
  \/ run_in_waiting
  \/ run_readline
  \/ run_process
  \/ run_interrupt
  \/ run_finally
  \/ run_close_serial
  \/ run_close_mqtt
  \/ main_exit
  \/ on_mqtt_connect
  \/ on_mqtt_disconnect
  \/ poll_while
  \/ poll_for
  \/ send_qcode_request_check
  \/ send_qcode_request_write
  \/ poll_wait
  \/ poll_cycle_if
  \/ poll_idle

Spec == Init /\ [][Next]_vars

(***************************************************************************)
(* Properties                                                              *)
(***************************************************************************)
\* the codes of a cycle log, in order
LogCodes(log) == [i \in 1..Len(log) |-> log[i].qcode]

\* the requests a cycle log put on the wire, in order
LogWire(log) ==
  LET sent == SelectSeq(log, LAMBDA e : e.sent)
  IN [i \in 1..Len(sent) |-> Request(sent[i].qcode)]

\* the request thread is inside its loop
PollInLoop == poll_pc \in {"while", "for", "send", "write", "wait", "cycle_if", "idle"}

\* the sends of the current cycle are the first codes of the list, in list order, the
\* bytes written are their requests, and the idle sleep is entered after a full pass
PollOrderInv ==
  /\ LogCodes(cycleLog) = SubSeq(qcodes_to_request, 1, Len(cycleLog))
  /\ wire = LogWire(cycleLog)
  /\ poll_pc \in {"send", "write"} => Len(cycleLog) = qidx - 1
  /\ poll_pc = "wait" => Len(cycleLog) = qidx /\ remaining \in 1..PerCodeWait
  /\ poll_pc = "idle" => LogCodes(cycleLog) = qcodes_to_request /\ remaining \in 1..RequestInterval
  /\ poll_pc = "idle" /\ Failed(cycleLog) = 0 =>
       wire = [i \in 1..Len(qcodes_to_request) |-> Request(qcodes_to_request[i])]

\* each send is followed by the per-code sleep, the per-code sleep by the next list entry,
\* and a further cycle starts with an empty log at the first entry after the idle sleep
PollOrderStep ==
  /\ Len(cycleLog') > Len(cycleLog) => poll_pc' = "wait" /\ remaining' = PerCodeWait
  /\ poll_pc = "wait" /\ poll_pc' \notin {"wait", "killed"} => poll_pc' = "for" /\ remaining = 1
  /\ poll_pc = "for" /\ poll_pc' = "send" => qidx' = qidx + 1
  /\ poll_pc = "cycle_if" /\ poll_pc' = "idle" => remaining' = RequestInterval
  /\ cycle' # cycle => /\ cycle' = cycle + 1
                       /\ cycleLog' = << >> /\ wire' = << >> /\ qidx' = 0 /\ poll_pc' = "for"
  /\ PollInLoop /\ poll_pc # "while" /\ poll_pc' = "while" /\ running' =>
       poll_pc = "idle" /\ remaining = 1

\* C1: while the bridge runs, each poll cycle sends the configured codes in list order,
\* none skipped, repeated or reordered, each send followed by the per-code wait, the
\* last one by the cycle-idle wait, after which the next cycle starts at the first code
C1_PollCycleOrder == [](PollOrderInv) /\ [][PollOrderStep]_vars

\* a second cycle has started again at the first code after a complete first cycle
C1_Witness ==
  /\ running
  /\ cycle = 2
  /\ poll_pc = "wait"
  /\ wire = << Request(qcodes_to_request[1]) >>

\* C2: when the stop flag is cleared while the request thread is in a per-code wait or
\* in the cycle-idle wait, the thread has left the wait once one tick has passed
C2_StopDuringWaitExitsWithinOneTick ==
  stop_in_wait /\ since_stop >= 1 => poll_pc \notin {"wait", "idle"}

\* C3: a chunk that is not valid UTF-8 is dropped and never makes run() leave its loop
C3_InvalidChunkNotFatal == stop_cause # "decode_error"

\* C4: an error raised by in_waiting or readline() never makes run() leave its loop
C4_ReadErrorNotFatal == stop_cause # "read_error"

\* C5: during shutdown the serial port is closed and the client disconnected only
\* after the request thread has left its loop
C5_ReleaseAfterActivitiesExit ==
  /\ (setup_result = "ok" /\ serial_port = "closed") => ~PollInLoop
  /\ mqtt_client = "disconnected" => ~PollInLoop

\* C6: when the process has stopped, the serial port is closed if it was opened, and
\* the client's network loop is stopped and the client disconnected if it was started
C6_ResourcesReleasedAtStopped ==
  main_pc = "stopped" => serial_port # "open" /\ mqtt_client # "loop_started"

\* setup ended in failure: setup_serial() or setup_mqtt() returned False
StartupFailed == setup_result \in {"serial_failed", "mqtt_failed"} \/ main_pc = "mqtt_failed"

\* some part of the running bridge has acted
BridgeActive ==
  \/ running
  \/ poll_pc # "notstarted"
  \/ cycle > 0
  \/ cycleLog # << >>
  \/ serial_writers # {}
  \/ serial_readers # {}
  \/ reads > 0

\* C7: after a failed setup run() returns without the bridge ever running: the running
\* flag is never set, the request thread never started, nothing written, nothing read
C7_StartupFailureNeverRuns ==
  /\ [](StartupFailed => ~BridgeActive /\ main_pc \in {"mqtt_failed", "returned", "stopped"})
  /\ [](BridgeActive => setup_result = "ok")
  /\ [][setup_result # "pending" => setup_result' = setup_result]_vars

\* the bus connection was not confirmed within the connect wait and the process ended
C7_Witness ==
  /\ main_pc = "stopped"
  /\ setup_result = "mqtt_failed"
  /\ mqtt_client = "loop_started"
  /\ ~connected

\* C8: a startup failure ends the process with a non-zero completion code
C8_StartupFailureExitsNonZero ==
  main_pc = "stopped" /\ StartupFailed => exit_code # 0

\* a send of this step failed
SendFailedStep ==
  /\ Len(cycleLog') = Len(cycleLog) + 1
  /\ ~cycleLog'[Len(cycleLog')].sent

\* C9: a failed send leaves the bridge running in the same cycle, goes to the per-code
\* wait, and the send after it is for the next code of the list
C9_WriteFailureNotFatal ==
  /\ [][SendFailedStep =>
          /\ poll_pc' = "wait" /\ remaining' = PerCodeWait
          /\ cycle' = cycle /\ qidx' = qidx
          /\ running' = running /\ main_pc' = main_pc /\ stop_cause' = stop_cause
          /\ SubSeq(cycleLog', 1, Len(cycleLog)) = cycleLog]_vars
  /\ [](\A i \in 1..Len(cycleLog) :
          ~cycleLog[i].sent =>
             /\ cycleLog[i].qcode = qcodes_to_request[i]
             /\ i < Len(cycleLog) => cycleLog[i + 1].qcode = qcodes_to_request[i + 1]
             /\ (i = Len(cycleLog) /\ poll_pc \in {"send", "write"}) => qidx = i + 1)

\* in a running bridge a failed send was followed by the send of the next code
C9_Witness ==
  /\ running
  /\ Len(cycleLog) >= 2
  /\ ~cycleLog[1].sent
  /\ cycleLog[2].sent
  /\ wire = << Request(qcodes_to_request[2]) >>

\* C10: only the request thread writes to the serial port, only the main thread's
\* read loop reads from it
C10_SingleWriterSingleReader ==
  /\ serial_writers \subseteq {"request_thread"}
  /\ serial_readers \subseteq {"main"}

\* both activities have used the port
C10_Witness ==
  /\ serial_writers = {"request_thread"}
  /\ serial_readers = {"main"}
  /\ reads > 0
  /\ wire # << >>

\* a step of run_process (and not the interrupt of it)
ProcessStep == main_pc = "process" /\ main_pc' # "process" /\ stop_cause' # "interrupt"

\* the chunk being processed is not empty and is valid UTF-8
ValidChunk == data # << >> /\ Utf8Decode(data).ok

\* C11: a publish whose result code is not success, or that raises, is not fatal: the
\* record is dropped, the read loop goes on to its next pass, the bridge keeps running
C11_PublishFailureNotFatal ==
  [][ProcessStep /\ last_publish' \in {"rc_error", "raise"} =>
       /\ published' = published
       /\ main_pc' = "loop"
       /\ running /\ running'
       /\ stop_cause' = "none"
       /\ UNCHANGED << serial_port, mqtt_client, poll_pc >>]_vars

\* after a publish that failed, the running bridge is reading its next chunk
C11_Witness ==
  /\ last_publish = "rc_error"
  /\ main_pc = "readline"
  /\ reads = 1
  /\ running
  /\ published = << >>

\* C12: a disconnection of the bus stops nothing; a record decoded while disconnected is
\* dropped without a call of publish and is not kept for later; a record decoded while
\* connected is handed to publish, and an accepted publish adds that record alone
C12_DisconnectNotFatal ==
  /\ [][connected /\ ~connected' =>
          UNCHANGED << main_pc, running, poll_pc, stop_cause, published, serial_port,
                       mqtt_client >>]_vars
  /\ [][ProcessStep /\ ValidChunk /\ ~connected =>
          /\ published' = published
          /\ last_publish' = "not_attempted"
          /\ main_pc' = "loop"
          /\ running']_vars
  /\ [][ProcessStep /\ ValidChunk /\ connected =>
          /\ last_publish' \in PublishOutcomes
          /\ last_publish' = "success" =>
               /\ Len(published') = Len(published) + 1
               /\ SubSeq(published', 1, Len(published)) = published
               /\ published'[Len(published')].payload.raw_data = Utf8Decode(data).text]_vars

\* a record was dropped while the bus was disconnected and a later one was published
C12_Witness ==
  /\ running
  /\ dropped_offline
  /\ reads = 2
  /\ last_publish = "success"
  /\ Len(published) = 1

(***************************************************************************)
(* The decoder on bounded inputs                                           *)
(*                                                                         *)
(* DecodeSpec starts in the read loop of a running bridge that has just    *)
(* read a chunk, any sequence of at most MaxTokens tokens, and applies     *)
(* parse_rs232_response and publish_to_mqtt to it.                         *)
(***************************************************************************)
\* the pieces chunks are made of: STX, ETB, a comma, LF, "SPONT_", "Q", a space and a
\* byte that is not valid UTF-8
Tokens == { << STX >>, << ETB >>, << COMMA >>, << LF >>, StrSPONT, << 81 >>, << 32 >>, << 255 >> }

RECURSIVE TokenSeqs(_)
\* the chunks of at most n tokens
TokenSeqs(n) ==
  IF n = 0 THEN { << >> }
  ELSE LET shorter == TokenSeqs(n - 1) IN shorter \cup { c \o t : c \in shorter, t \in Tokens }

DecodeChunks == TokenSeqs(MaxTokens)

\* a running, connected bridge whose readline() has just returned a chunk
DecodeInit ==
  /\ main_pc = "process"
  /\ serial_port = "open"
  /\ mqtt_client = "loop_started"
  /\ connected = TRUE
  /\ timeout = 0
  /\ running = TRUE
  /\ setup_result = "ok"
  /\ stop_cause = "none"
  /\ exit_code = -1
  /\ data \in DecodeChunks
  /\ reads = 1
  /\ published = << >>
  /\ last_publish = "none"
  /\ dropped_offline = FALSE
  /\ rx_buffer = << >>
  /\ device_sent = << >>
  /\ poll_pc = "while"
  /\ qidx = 0
  /\ remaining = 0
  /\ cycle = 0
  /\ cycleLog = << >>
  /\ wire = << >>
  /\ since_stop = 0
  /\ stop_in_wait = FALSE
  /\ serial_readers = {"main"}
  /\ serial_writers = {}

\* "parsed_data = self.parse_rs232_response(data); if parsed_data:
\* self.publish_to_mqtt(parsed_data)" with a publish the client accepts; the chunk is kept
parse_and_publish ==
  /\ main_pc = "process"
  /\ published' = publish_to_mqtt(parse_rs232_response(data), "success")
  /\ last_publish' = publish_result(parse_rs232_response(data), "success")
  /\ main_pc' = "loop"
  /\ UNCHANGED << serial_port, busVars, timeout, running, setup_result, stop_cause,
                  exit_code, data, reads, dropped_offline, serial_readers, rx_buffer,
                  device_sent, poll_pc, pollVars, stop_in_wait >>

DecodeSpec == DecodeInit /\ [][parse_and_publish]_vars

\* the decoder and the publisher have acted on the chunk
Decoded == main_pc = "loop"

\* the chunk is valid UTF-8
ChunkValid == Utf8Decode(data).ok

\* the chunk as text
ChunkText == Utf8Decode(data).text

\* Variant A: the text starts with STX and has an ETB later
VariantA(t) == Len(t) >= 2 /\ t[1] = STX /\ \E i \in 2..Len(t) : t[i] = ETB

\* the text strictly between the STX and the first ETB of a Variant A text
Inner(t) ==
  LET e == CHOOSE i \in 2..Len(t) : t[i] = ETB /\ \A j \in 2..(i - 1) : t[j] # ETB
  IN SubSeq(t, 2, e - 1)

HasComma(x) == \E i \in 1..Len(x) : x[i] = COMMA

\* exactly one message was published for the chunk
OneRecord == Len(published) = 1

\* the record of the published message
TheRecord == published[1].payload

\* C13: a valid chunk that starts with STX and has an ETB later, with a comma between the
\* markers, gives one coded-response record: its code is the text before the first comma
\* (so it holds no comma) and its value is all the text after that comma.
C13_CodedSplitsAtFirstComma ==
  Decoded /\ ChunkValid /\ VariantA(ChunkText) /\ HasComma(Inner(ChunkText)) =>
    /\ OneRecord
    /\ TheRecord.message_type = "qcode_response"
    /\ ~HasComma(TheRecord.qcode)
    /\ TheRecord.qcode \o << COMMA >> \o TheRecord.value = Inner(ChunkText)

\* the chunk STX Q , , ETB was decoded: code "Q", value ","
C13_Witness ==
  /\ Decoded
  /\ data = << STX, 81, COMMA, COMMA, ETB >>
  /\ OneRecord
  /\ TheRecord.qcode = << 81 >>
  /\ TheRecord.value = << COMMA >>

\* C14: a valid chunk that starts with STX and has an ETB later, with no comma between the
\* markers (the empty text included), gives one coded-response record with code UNKNOWN
\* and the whole inter-marker text as its value.
C14_CodedWithoutCommaIsUnknown ==
  Decoded /\ ChunkValid /\ VariantA(ChunkText) /\ ~HasComma(Inner(ChunkText)) =>
    /\ OneRecord
    /\ TheRecord.message_type = "qcode_response"
    /\ TheRecord.qcode = StrUNKNOWN
    /\ TheRecord.value = Inner(ChunkText)

\* the chunk STX ETB was decoded: code UNKNOWN, empty value
C14_Witness ==
  /\ Decoded
  /\ data = << STX, ETB >>
  /\ OneRecord
  /\ TheRecord.qcode = StrUNKNOWN
  /\ TheRecord.value = << >>

\* the lines of a text: its maximal segments without LF
LinesOf(t) ==
  { SubSeq(t, a + 1, b) : << a, b >> \in
      { ab \in (0..Len(t)) \X (0..Len(t)) :
          /\ ab[1] <= ab[2]
          /\ \A i \in (ab[1] + 1)..ab[2] : t[i] # LF
          /\ (ab[1] = 0 \/ t[ab[1]] = LF)
          /\ (ab[2] = Len(t) \/ t[ab[2] + 1] = LF) } }

\* the line holds SPONT_ and an ETB
SpontEtbLine(line) == Contains(line, StrSPONT) /\ \E i \in 1..Len(line) : line[i] = ETB

\* the text between the first character of such a line and its first ETB
LineCsv(line) ==
  LET e == CHOOSE i \in 1..Len(line) : line[i] = ETB /\ \A j \in 1..(i - 1) : line[j] # ETB
  IN SubSeq(line, 2, e - 1)

\* C15: a valid chunk that is not Variant A and whose lines holding SPONT_ and an ETB have
\* no comma between the first character and the ETB gives neither a spontaneous record nor
\* a record with code UNKNOWN; the lines are skipped and the fallback record RAW is made.
C15_SpontWithoutCommaSkipped ==
  ( /\ Decoded /\ ChunkValid /\ ~VariantA(ChunkText)
    /\ \E line \in LinesOf(ChunkText) : SpontEtbLine(line)
    /\ \A line \in LinesOf(ChunkText) : SpontEtbLine(line) => ~HasComma(LineCsv(line)) ) =>
    /\ OneRecord
    /\ TheRecord.message_type # "spontaneous"
    /\ TheRecord.qcode # StrUNKNOWN
    /\ TheRecord.qcode = StrRAW
    /\ TheRecord.message_type = "unknown"

\* the chunk Q SPONT_ ETB , was decoded: the comma is after the ETB and the record is RAW
C15_Witness ==
  /\ Decoded
  /\ data = << 81 >> \o StrSPONT \o << ETB, COMMA >>
  /\ OneRecord
  /\ TheRecord.qcode = StrRAW
  /\ TheRecord.message_type = "unknown"

\* v is t without its leading and trailing whitespace (space and LF among the tokens)
IsTrimOf(v, t) ==
  LET White(c) == c \in {32, LF, 9, 11, 12, 13} IN
  \E a \in 0..Len(t) : \E b \in a..Len(t) :
     /\ v = SubSeq(t, a + 1, b)
     /\ \A i \in 1..a : White(t[i])
     /\ \A i \in (b + 1)..Len(t) : White(t[i])
     /\ v # << >> => ~White(v[1]) /\ ~White(v[Len(v)])

\* C16: a valid chunk that is not Variant A and has no line holding both SPONT_ and an ETB
\* gives one record with code RAW, kind unknown, and the chunk text without its surrounding
\* whitespace as the value.
C16_FallbackIsTrimmedRaw ==
  ( /\ Decoded /\ ChunkValid /\ ~VariantA(ChunkText)
    /\ \A line \in LinesOf(ChunkText) : ~SpontEtbLine(line) ) =>
    /\ OneRecord
    /\ TheRecord.qcode = StrRAW
    /\ TheRecord.message_type = "unknown"
    /\ IsTrimOf(TheRecord.value, ChunkText)
    /\ TheRecord.raw_data = ChunkText

\* the chunk space Q space Q LF was decoded: value "Q Q"
C16_Witness ==
  /\ Decoded
  /\ data = << 32, 81, 32, 81, LF >>
  /\ OneRecord
  /\ TheRecord.qcode = StrRAW
  /\ TheRecord.value = << 81, 32, 81 >>

\* C17 as stated: for an empty chunk the decoder returns null and the read loop attempts
\* no publish.
C17_EmptyChunkDecodesToNull ==
  /\ [](main_pc = "process" /\ data = << >> => parse_rs232_response(data) = None)
  /\ [][ProcessStep /\ data = << >> => published' = published /\ last_publish' = "none"]_vars

\* C17, amended: the read loop passes over an empty chunk without publishing, although the
\* decoder given the empty chunk returns the fallback record RAW with an empty value.
C17_EmptyChunkSkippedByReadLoop ==
  /\ [](main_pc = "process" /\ data = << >> =>
          parse_rs232_response(data) = Record(StrRAW, << >>, << >>, "unknown"))
  /\ [][ProcessStep /\ data = << >> =>
          /\ published' = published
          /\ last_publish' = "none"
          /\ main_pc' = "loop"
          /\ UNCHANGED << running, stop_cause, serial_port, busVars >>]_vars

\* a connected, running bridge has passed over an empty first chunk
C17_Witness ==
  /\ main_pc = "loop"
  /\ reads = 1
  /\ last_publish = "none"
  /\ published = << >>
  /\ stop_cause = "none"
  /\ connected
  /\ running

\* low is code with each of A..Z replaced by its lowercase letter
LoweredAscii(code, low) ==
  /\ Len(low) = Len(code)
  /\ \A i \in 1..Len(code) : low[i] = IF code[i] \in 65..90 THEN code[i] + 32 ELSE code[i]

\* the middle segment of the topic that goes with a kind
SegmentOf(message_type) ==
  CASE message_type = "qcode_response" -> SegQcode
    [] message_type = "spontaneous" -> SegSpontaneous
    [] OTHER -> SegUnknown

\* C18: the topic of a published record is the prefix, then the segment its kind selects
\* (qcode, spontaneous, or unknown for every other kind), then its code in lowercase.
C18_TopicFromKindAndCode ==
  Decoded /\ OneRecord =>
    LET topic == published[1].topic
        head == MQTT_TOPIC_PREFIX \o SegmentOf(TheRecord.message_type)
    IN /\ Len(topic) = Len(head) + Len(TheRecord.qcode)
       /\ SubSeq(topic, 1, Len(head)) = head
       /\ LoweredAscii(TheRecord.qcode, SubSeq(topic, Len(head) + 1, Len(topic)))

\* the chunk STX Q , Q ETB was published to <prefix>/qcode/q with the value "Q" kept
C18_Witness ==
  /\ Decoded
  /\ data = << STX, 81, COMMA, 81, ETB >>
  /\ OneRecord
  /\ published[1].topic = MQTT_TOPIC_PREFIX \o SegQcode \o << 113 >>
  /\ TheRecord.value = << 81 >>

CR == 13
PROMPT == 62

\* self.machine_data of the simulator
machine_data ==
     <<81, 49, 48, 48>> :> <<67, 78, 67, 48, 48, 49, 50, 51, 52>>          \* Q100: CNC001234
  @@ <<81, 49, 48, 49>> :> <<86, 50, 46, 49, 46, 53>>                      \* Q101: V2.1.5
  @@ <<81, 49, 48, 50>> :> <<67, 78, 67, 45, 53, 48, 48, 48>>              \* Q102: CNC-5000
  @@ <<81, 49, 48, 52>> :> <<77, 69, 77>>                                  \* Q104: MEM
  @@ <<81, 50, 48, 48>> :> <<49, 50, 52, 55>>                              \* Q200: 1247
  @@ <<81, 50, 48, 49>> :> <<84, 48, 53>>                                  \* Q201: T05
  @@ <<81, 51, 48, 48>> :> <<49, 50, 53, 48, 46, 53>>                      \* Q300: 1250.5
  @@ <<81, 51, 48, 49>> :> <<56, 57, 48, 46, 50>>                          \* Q301: 890.2
  @@ <<81, 51, 48, 51>> :> <<52, 53, 46, 51>>                              \* Q303: 45.3
  @@ <<81, 51, 48, 52>> :> <<52, 52, 46, 56>>                              \* Q304: 44.8
  @@ <<81, 52, 48, 50>> :> <<49, 53, 54>>                                  \* Q402: 156
  @@ <<81, 52, 48, 51>> :> <<56, 57>>                                      \* Q403: 89
  @@ <<81, 53, 48, 48>> :> <<79, 49, 50, 51, 52, 44, 82, 69, 65, 68, 89>>  \* Q500: O1234,READY

\* format_rs232_response(qcode, data): STX + "qcode,data" + ETB + CR LF + '>'
format_rs232_response(qcode, value) ==
  << STX >> \o qcode \o << COMMA >> \o value \o << ETB >> \o << CR, LF >> \o << PROMPT >>

\* a running, connected bridge at the top of the read loop, nothing received yet
StreamInit ==
  /\ main_pc = "loop"
  /\ serial_port = "open"
  /\ mqtt_client = "loop_started"
  /\ connected = TRUE
  /\ timeout = 0
  /\ running = TRUE
  /\ setup_result = "ok"
  /\ stop_cause = "none"
  /\ exit_code = -1
  /\ data = << >>
  /\ reads = 0
  /\ published = << >>
  /\ last_publish = "none"
  /\ dropped_offline = FALSE
  /\ rx_buffer = << >>
  /\ device_sent = << >>
  /\ poll_pc = "while"
  /\ qidx = 0
  /\ remaining = 0
  /\ cycle = 0
  /\ cycleLog = << >>
  /\ wire = << >>
  /\ since_stop = 0
  /\ stop_in_wait = FALSE
  /\ serial_readers = {}
  /\ serial_writers = {}

\* handle_qcode_request for a requested code: the response is written to the line and
\* arrives in the bridge's receive buffer
device_respond ==
  /\ Len(device_sent) < NumResponses
  /\ \E i \in 1..Len(qcodes_to_request) :
       LET qcode == qcodes_to_request[i] IN
       /\ rx_buffer' = rx_buffer \o Utf8Encode(format_rs232_response(qcode, machine_data[qcode]))
       /\ device_sent' = Append(device_sent, qcode)
  /\ UNCHANGED << main_pc, serial_port, busVars, timeout, running, setup_result,
                  stop_cause, exit_code, data, reads, published, last_publish,
                  dropped_offline, serial_readers, poll_pc, pollVars, stop_in_wait >>

\* what readline() returns on the buffer b: the bytes up to and including the first LF,
\* or, when the read timeout passes without an LF, all the bytes there are
ReadlineChunk(b) == IF Find(b, LF) # -1 THEN Slice(b, 0, Find(b, LF) + 1) ELSE b

\* "if self.serial_port.in_waiting > 0: data = self.serial_port.readline()"
stream_readline ==
  /\ main_pc = "loop"
  /\ running
  /\ Len(rx_buffer) > 0
  /\ data' = ReadlineChunk(rx_buffer)
  /\ rx_buffer' = Slice(rx_buffer, Len(ReadlineChunk(rx_buffer)), Len(rx_buffer))
  /\ reads' = reads + 1
  /\ main_pc' = "process"
  /\ UNCHANGED << serial_port, busVars, timeout, running, setup_result, stop_cause,
                  exit_code, published, last_publish, dropped_offline, serial_readers,
                  device_sent, poll_pc, pollVars, stop_in_wait >>

StreamNext ==
  \/ device_respond
  \/ stream_readline
  \/ parse_and_publish

StreamSpec == StreamInit /\ [][StreamNext]_vars

\* C20: once the read loop has consumed the whole stream, the published records are the
\* device's responses, one coded-response record each and in order, with the code and the
\* value sent; the '>' prompts add no record and alter none.
C20_EveryResponsePublishedOnce ==
  main_pc = "loop" /\ rx_buffer = << >> =>
    /\ Len(published) = Len(device_sent)
    /\ \A i \in 1..Len(published) :
         /\ published[i].payload.message_type = "qcode_response"
         /\ published[i].payload.qcode = device_sent[i]
         /\ published[i].payload.value = machine_data[device_sent[i]]

\* the request thread calls serial_port.write (line 199) in this step
WriteCall == poll_pc = "write" /\ poll_pc' = "wait"

\* the request thread tests the port (line 196) in this step
SendAttempt == poll_pc = "send" /\ poll_pc' \in {"write", "wait"}

\* C21: the request thread never calls write on the serial port after the shutdown has
\* closed it, and a send attempted after the close finds the port unavailable and returns
\* failure with nothing written.
C21_NoWriteAfterClose ==
  /\ [][WriteCall => serial_port = "open"]_vars
  /\ [][SendAttempt /\ serial_port = "closed" =>
          /\ wire' = wire
          /\ poll_pc' = "wait"
          /\ cycleLog' = Append(cycleLog, [qcode |-> qcodes_to_request[qidx], sent |-> FALSE])]_vars

(***************************************************************************)
(* Termination of the request thread                                       *)
(*                                                                         *)
(* FairSpec adds that the request thread, once started, is scheduled: a    *)
(* step of it that stays possible is taken, so each time.sleep returns.    *)
(* Nothing is assumed of the main thread or of the network thread.         *)
(***************************************************************************)
\* a step of request_qcodes_periodically
PollStep ==
  \/ poll_while
  \/ poll_for
  \/ send_qcode_request_check
  \/ send_qcode_request_write
  \/ poll_wait
  \/ poll_cycle_if
  \/ poll_idle

FairSpec == Spec /\ WF_vars(PollStep)

\* the stop flag has been set: running is False again after the thread was started
StopFlagSet == ~running /\ poll_pc # "notstarted"

=============================================================================
